---- MODULE Spec2Model ----
(***************************************************************************)
(* A model of visidata's text clipping (cliptext.py) and mouse region      *)
(* registry / dispatch (mouse.py).                                         *)
(*                                                                         *)
(* A Python string is a sequence of one-character strings; a character     *)
(* outside ASCII is written by its code point, "U+4E2D".  The Unicode      *)
(* database (unicodedata) is the table of the characters the model uses.   *)
(***************************************************************************)
EXTENDS Integers, Sequences, FiniteSets, TLC

VARIABLES
    mousereg,          \* vd.mousereg: the list of registered regions
    activePane,        \* vd.activePane
    options,           \* the options the code reads, fixed for a run
    call,              \* the last API call: its arguments and what it returned
    gen                \* the running wraptext generator (its locals)

vars == <<mousereg, activePane, options, call, gen>>

\* ------------------------------------------------------------ bounds
MaxLen == 3        \* characters in a text handed to _clipstr / dispwidth
MaxDispw == 4      \* largest width bound handed to _clipstr
MaxRegs == 2       \* regions registered within one draw cycle
MaxCoord == 2      \* largest row / column of a pointer event

\* ------------------------------------------------------------ helpers
Min(a, b) == IF a < b THEN a ELSE b

RECURSIVE Concat(_)
Concat(ss) == IF ss = <<>> THEN <<>> ELSE Head(ss) \o Concat(Tail(ss))

\* s[i:] and s[:n] of Python, for 0 <= i, n
From(s, i) == SubSeq(s, i + 1, Len(s))
Upto(s, n) == SubSeq(s, 1, Min(n, Len(s)))

StartsWith(s, p) == Len(s) >= Len(p) /\ SubSeq(s, 1, Len(p)) = p

\* ------------------------------------------------------------ unicodedata
ZERO_WIDTH_CF ==
    {"U+0000", "U+034F", "U+200B", "U+200C", "U+200D", "U+200E", "U+200F",
     "U+2028", "U+2029", "U+202A", "U+202B", "U+202C", "U+202D", "U+202E",
     "U+2060", "U+2061", "U+2062", "U+2063"}

\* unicodedata.east_asian_width
east_asian_width(c) ==
    CASE c \in {"U+2026", "U+0301", "U+034F", "U+00B7"} -> "A"
      [] c \in {"U+4E2D", "U+3099"} -> "W"
      [] c \in (ZERO_WIDTH_CF \ {"U+034F"}) \cup {"U+00A0", "U+02B0", "U+05B0", "U+25E6", "U+25CC"} -> "N"
      [] OTHER -> "Na"

\* unicodedata.category
category(c) ==
    CASE c \in {"U+0301", "U+034F", "U+3099", "U+05B0"} -> "Mn"
      [] c = "U+02B0" -> "Lm"
      [] c = "U+0000" -> "Cc"
      [] c \in {" ", "U+00A0"} -> "Zs"
      [] c = "U+2028" -> "Zl"
      [] c = "U+2029" -> "Zp"
      [] c \in ZERO_WIDTH_CF -> "Cf"
      [] c = "U+4E2D" -> "Lo"
      [] c = "U+0060" -> "Sk"
      [] c = "[" -> "Ps"
      [] c = "]" -> "Pe"
      [] c = "_" -> "Pc"
      [] c \in {":", "*", ".", "U+2026", "U+00B7"} -> "Po"
      [] c \in {"U+25E6", "U+25CC"} -> "So"
      [] OTHER -> "Ll"

\* unicodedata.combining
combining(c) ==
    CASE c = "U+0301" -> 230
      [] c = "U+3099" -> 8
      [] c = "U+05B0" -> 10
      [] OTHER -> 0

\* unicodedata.name(c).startswith(MODIFIER)
NameIsModifier(c) == c = "U+02B0"

\* ------------------------------------------------------------ wcwidth
wcwidth(cc, ambig) ==
    IF cc \in ZERO_WIDTH_CF THEN 1
    ELSE IF east_asian_width(cc) \in {"A", "N"}
         THEN (IF category(cc) = "Mn" THEN 1 ELSE ambig)
    ELSE IF east_asian_width(cc) \in {"W", "F"} THEN 2
    ELSE IF combining(cc) = 0 THEN 1
    ELSE 0

\* ------------------------------------------------------------ iterchunks
\* The end of the match of internal_markup_re at position i of s (1-based), or 0:
\* "[:" at i, then the first "]" after it.
RECURSIVE CloseAt(_, _)
CloseAt(s, j) ==
    IF j > Len(s) THEN 0
    ELSE IF s[j] = "]" THEN j
    ELSE CloseAt(s, j + 1)

MarkupEnd(s, i) ==
    IF i + 1 <= Len(s) /\ s[i] = "[" /\ s[i + 1] = ":" THEN CloseAt(s, i + 2) ELSE 0

\* re.split(internal_markup_re, s): text, marker, text, ..., text (texts may be empty)
RECURSIVE ReSplit(_, _, _)
ReSplit(s, i, cur) ==
    IF i > Len(s) THEN <<cur>>
    ELSE IF MarkupEnd(s, i) > 0
         THEN <<cur, SubSeq(s, i, MarkupEnd(s, i))>>
              \o ReSplit(s, MarkupEnd(s, i) + 1, <<>>)
    ELSE ReSplit(s, i + 1, Append(cur, s[i]))

IsMarkup(x) == StartsWith(x, <<"[", ":">>) /\ Len(x) >= 1 /\ x[Len(x)] = "]"

\* chunk[2:-1], or a colon when that is empty
MarkupName(x) ==
    IF SubSeq(x, 3, Len(x) - 1) = <<>> THEN <<":">> ELSE SubSeq(x, 3, Len(x) - 1)

\* iterchunks(s, literal): the sequence of (colorname, chunk) pairs
RECURSIVE ChunkPairs(_, _)
ChunkPairs(chunks, literal) ==
    IF chunks = <<>> THEN <<>>
    ELSE LET chunk == Head(chunks)
             rest == ChunkPairs(Tail(chunks), literal)
         IN IF chunk = <<>> THEN rest
            ELSE IF ~literal /\ IsMarkup(chunk)
                 THEN <<[colorname |-> MarkupName(chunk), chunk |-> <<>>]>> \o rest
            ELSE <<[colorname |-> <<>>, chunk |-> chunk]>> \o rest

iterchunks(s, literal) == ChunkPairs(ReSplit(s, 1, <<>>), literal)

\* ------------------------------------------------------------ dispwidth
\* the inner loop over one chunk: it stops (break) once w exceeds a truthy maxwidth
RECURSIVE ChunkWidth(_, _, _, _)
ChunkWidth(s, w, maxwidth, ambig) ==
    IF s = <<>> THEN w
    ELSE LET w2 == w + wcwidth(Head(s), ambig)
         IN IF maxwidth # 0 /\ w2 > maxwidth THEN w2
            ELSE ChunkWidth(Tail(s), w2, maxwidth, ambig)

RECURSIVE SumChunks(_, _, _, _)
SumChunks(pairs, w, maxwidth, ambig) ==
    IF pairs = <<>> THEN w
    ELSE SumChunks(Tail(pairs), ChunkWidth(Head(pairs).chunk, w, maxwidth, ambig),
                   maxwidth, ambig)

\* dispwidth(ss, maxwidth, literal); maxwidth None is 0; ambig is options.disp_ambig_width
dispwidth(ss, maxwidth, literal, ambig) ==
    SumChunks(iterchunks(ss, literal), 0, maxwidth, ambig)

\* ------------------------------------------------------------ _dispch
\* the branches of _dispch, given the category of c
dispchOf(c, ccat, oddspacech, combch, modch, ambig) ==
    IF ccat \in {"Mn", "Sk", "Lm"} /\ NameIsModifier(c) THEN [newc |-> modch, chlen |-> 1]
    ELSE IF ccat \notin {"Mn", "Sk", "Lm"} /\ c # " " /\ ccat \in {"Cc", "Zs", "Zl", "Cs"}
         THEN [newc |-> oddspacech, chlen |-> 1]
    ELSE IF ccat \notin {"Mn", "Sk", "Lm"} /\ c \in ZERO_WIDTH_CF
         THEN [newc |-> combch, chlen |-> 1]
    ELSE [newc |-> <<c>>, chlen |-> dispwidth(<<c>>, 0, TRUE, ambig)]

\* _dispch(c, oddspacech, combch, modch) -> (newc, chlen)
_dispch(c, oddspacech, combch, modch, ambig) ==
    dispchOf(c, category(c), oddspacech, combch, modch, ambig)

\* ------------------------------------------------------------ _clipstr
RECURSIVE ClipLoop(_, _, _, _, _, _, _, _, _, _)

\* the end of one pass of the loop: ret and w hold the character just added; truncate
\* and break, or go on with the rest of s
ClipCheck(rest, ret, w, dispw, trunch, trunchlen, oddspacech, combch, modch, ambig) ==
    IF dispw # 0 /\ w > dispw - trunchlen + 1
    THEN [ret |-> SubSeq(ret, 1, Len(ret) - 2) \o trunch, w |-> w + trunchlen]
    ELSE ClipLoop(rest, ret, w, dispw, trunch, trunchlen, oddspacech, combch, modch, ambig)

\* one pass of the loop on character c, d = _dispch(c)
ClipAdd(c, d, rest, ret, w, dispw, trunch, trunchlen, oddspacech, combch, modch, ambig) ==
    IF d.newc # <<>>
    THEN ClipCheck(rest, ret \o d.newc, w + d.chlen,
                   dispw, trunch, trunchlen, oddspacech, combch, modch, ambig)
    ELSE ClipCheck(rest, Append(ret, c), w + dispwidth(<<c>>, 0, FALSE, ambig),
                   dispw, trunch, trunchlen, oddspacech, combch, modch, ambig)

\* for c in s
ClipLoop(s, ret, w, dispw, trunch, trunchlen, oddspacech, combch, modch, ambig) ==
    IF s = <<>> THEN [ret |-> ret, w |-> w]
    ELSE ClipAdd(Head(s), _dispch(Head(s), oddspacech, combch, modch, ambig), Tail(s),
                 ret, w, dispw, trunch, trunchlen, oddspacech, combch, modch, ambig)

\* _clipstr(s, dispw, trunch, oddspacech, combch, modch) -> (ret, w)
_clipstr(s, dispw, trunch, oddspacech, combch, modch, ambig) ==
    ClipLoop(s, <<>>, 0, dispw, trunch, dispwidth(trunch, 0, FALSE, ambig),
             oddspacech, combch, modch, ambig)

\* ------------------------------------------------------------ clipstr
\* keyword arguments left out (None)
NoneStr == <<"None">>

\* clipstr(s, dispw, truncator, oddspace), reading options
clipstr(s, dispw, truncator, oddspace, opts) ==
    LET trunch == IF truncator = NoneStr THEN opts.disp_truncator ELSE truncator
        oddspacech == IF oddspace = NoneStr THEN opts.disp_oddspace ELSE oddspace
    IN IF opts.visibility # 0
       THEN _clipstr(s, dispw, trunch, oddspacech, <<"U+25CC">>, <<"U+25E6">>,
                     opts.disp_ambig_width)
       ELSE _clipstr(s, dispw, trunch, oddspacech, <<>>, <<>>, opts.disp_ambig_width)

\* ------------------------------------------------------------ inputs of the text functions
SeqsUpTo(S, n) == UNION {[1..k -> S] : k \in 0..n}

ClipChars == {"a", " ", "U+4E2D", "U+0301", "U+200B", "U+02B0"}
HelloWorld == <<"h", "e", "l", "l", "o", " ", "w", "o", "r", "l", "d">>
ClipTexts == SeqsUpTo(ClipChars, MaxLen) \cup {HelloWorld}
Truncators == {<<>>, <<"U+2026">>, <<".", ".">>, <<"U+4E2D">>}
WidthBounds == 0..MaxDispw \cup {5}
AllChars == ClipChars \cup ZERO_WIDTH_CF
               \cup {"U+2026", "U+00A0", "U+3099", "U+05B0", "U+0060", "[", "]", ":"}
StyledTexts ==
    {Concat(ps) : ps \in SeqsUpTo({<<"a">>, <<"U+4E2D">>, <<"[", ":", "]">>,
                                   <<"[", ":", "r", "]">>, <<"[", ":">>}, MaxLen)}

DefaultOptions ==
    [disp_ambig_width |-> 1, visibility |-> 0, disp_truncator |-> <<"U+2026">>,
     disp_oddspace |-> <<"U+00B7">>, debug |-> FALSE]

Idle ==
    [pc |-> "idle", text |-> <<>>, width |-> 0, indent |-> <<>>, lines |-> <<>>,
     inline |-> FALSE, chunks |-> <<>>, textlines |-> <<>>, linenum |-> 0, out |-> <<>>]

\* ------------------------------------------------------------ the text functions, called
\* A call is drawn with its arguments (op, the arguments, done = FALSE); the action
\* of the function called runs it and records what it returns.
Returned(c, ret) == [c EXCEPT !.done = TRUE, !.ret = ret]

CallWcwidth ==
    /\ call.op = "wcwidth" /\ ~call.done
    /\ call' = Returned(call, wcwidth(call.cc, call.ambig))
    /\ UNCHANGED <<mousereg, activePane, options, gen>>

CallDispwidth ==
    /\ call.op = "dispwidth" /\ ~call.done
    /\ call' = Returned(call, dispwidth(call.ss, call.maxwidth, call.literal,
                                        options.disp_ambig_width))
    /\ UNCHANGED <<mousereg, activePane, options, gen>>

Call_clipstr ==
    /\ call.op = "_clipstr" /\ ~call.done
    /\ call' = Returned(call, _clipstr(call.s, call.dispw, call.trunch, call.oddspacech,
                                       call.combch, call.modch, options.disp_ambig_width))
    /\ UNCHANGED <<mousereg, activePane, options, gen>>

CallClipstr ==
    /\ call.op = "clipstr" /\ ~call.done
    /\ call' = Returned(call, clipstr(call.s, call.dispw, call.truncator, call.oddspace,
                                      options))
    /\ UNCHANGED <<mousereg, activePane, options, gen>>

InitClip ==
    /\ mousereg = <<>>
    /\ activePane = 1
    /\ gen = Idle
    /\ options \in {[DefaultOptions EXCEPT !.disp_ambig_width = a, !.visibility = v] :
                       a \in {1, 2}, v \in {0, 1}}
    /\ \/ \E cc \in AllChars, ambig \in {1, 2} :
            call = [op |-> "wcwidth", cc |-> cc, ambig |-> ambig, done |-> FALSE, ret |-> 0]
       \/ \E ss \in StyledTexts, maxwidth \in 0..MaxDispw, literal \in BOOLEAN :
            call = [op |-> "dispwidth", ss |-> ss, maxwidth |-> maxwidth,
                    literal |-> literal, done |-> FALSE, ret |-> 0]
       \/ \E s \in ClipTexts, dispw \in WidthBounds, trunch \in Truncators,
             subst \in {<<>>, <<"U+25CC">>} :
            call = [op |-> "_clipstr", s |-> s, dispw |-> dispw, trunch |-> trunch,
                    oddspacech |-> <<"U+00B7">>, combch |-> subst, modch |-> subst,
                    done |-> FALSE, ret |-> [ret |-> <<>>, w |-> 0]]
       \/ \E s \in ClipTexts, dispw \in WidthBounds, truncator \in {NoneStr, <<>>} :
            call = [op |-> "clipstr", s |-> s, dispw |-> dispw, truncator |-> truncator,
                    oddspace |-> NoneStr, done |-> FALSE, ret |-> [ret |-> <<>>, w |-> 0]]

NextClip == CallWcwidth \/ CallDispwidth \/ Call_clipstr \/ CallClipstr

SpecClip == InitClip /\ [][NextClip]_vars

\* ------------------------------------------------------------ mouse.py: the registry
\* A curses window: getparyx() is (py, px), (-1, -1) for a window without a parent;
\* getmaxyx() is (mh, mw).
RootScr == [name |-> "root", py |-> -1, px |-> -1, mh |-> 4, mw |-> 8]
SubScr == [name |-> "sub", py |-> 1, px |-> 1, mh |-> 3, mw |-> 7]
TopRowScr == [name |-> "toprow", py |-> 0, px |-> 2, mh |-> 2, mw |-> 6]

\* A command bound to a button: a command string, a callable, or None (no match)
StrCmd(chars) == [kind |-> "str", s |-> chars]
Callback == [kind |-> "callable", s |-> <<>>]
NoneCmd == [kind |-> "None", s |-> <<>>]

\* keystrokes are sequences of the pieces parseMouse concatenates
B1R == <<"BUTTON1_RELEASED">>
B1P == <<"BUTTON1_PRESSED">>

\* onMouse(scr, y, x, h, w, winname, **kwargs): the registry after the call
onMouseReg(reg, scr, y, x, h, w, winname, kwargs) ==
    LET off == scr.py > 0
        e == [winname |-> winname, winscr |-> scr.name,
              y |-> IF off THEN y + scr.py ELSE y,
              x |-> IF off THEN x + scr.px ELSE x,
              h |-> h, w |-> w, buttonfuncs |-> kwargs]
    IN Append(reg, e)

\* the loop of getMouse over mousereg[::-1], from index i down
RECURSIVE getMouseFrom(_, _, _, _, _)
getMouseFrom(reg, i, x, y, button) ==
    IF i = 0 THEN NoneCmd
    ELSE LET r == reg[i]
         IN IF /\ r.x <= x /\ x < r.x + r.w
               /\ r.y <= y /\ y < r.y + r.h
               /\ button \in DOMAIN r.buttonfuncs
            THEN r.buttonfuncs[button]
            ELSE getMouseFrom(reg, i - 1, x, y, button)

\* a getMouse that walks the registry in registration order
RECURSIVE getMouseForward(_, _, _, _)
getMouseForward(reg, x, y, button) ==
    IF reg = <<>> THEN NoneCmd
    ELSE LET r == Head(reg)
         IN IF /\ r.x <= x /\ x < r.x + r.w
               /\ r.y <= y /\ y < r.y + r.h
               /\ button \in DOMAIN r.buttonfuncs
            THEN r.buttonfuncs[button]
            ELSE getMouseForward(Tail(reg), x, y, button)

\* getMouse(_scr, _x, _y, button)
getMouseRet(reg, x, y, button) == getMouseFrom(reg, Len(reg), x, y, button)

\* ------------------------------------------------------------ inputs of the registry
CmdA == StrCmd(<<"g", "o">>)
CmdB == StrCmd(<<"u", "p", " ", "u", "p">>)

ButtonMaps ==
    {(B1R :> CmdA), (B1R :> CmdB), (B1P :> Callback), (B1R :> CmdB @@ B1P :> CmdA)}

\* (scr, y, x, h, w): overlapping, nested and disjoint rectangles, with and without
\* a parent window
Rects ==
    {<<RootScr, 0, 0, 2, 2>>, <<RootScr, 1, 1, 1, 2>>, <<SubScr, 0, 0, 1, 1>>,
     <<TopRowScr, 0, 1, 1, 1>>}

Buttons == {B1R, B1P}
Coords == 0..MaxCoord

\* ------------------------------------------------------------ the registry, called
\* a clearCaches that keeps the last region
clearCachesKeepsLast ==
    /\ mousereg' = IF mousereg = <<>> THEN <<>> ELSE <<mousereg[Len(mousereg)]>>
    /\ call' = [op |-> "clearCaches", cleared |-> Len(mousereg)]
    /\ UNCHANGED <<activePane, options, gen>>

clearCaches ==
    /\ mousereg' = <<>>
    /\ call' = [op |-> "clearCaches", cleared |-> Len(mousereg)]
    /\ UNCHANGED <<activePane, options, gen>>

onMouse ==
    \E r \in Rects, kwargs \in ButtonMaps :
        /\ Len(mousereg) < MaxRegs
        /\ mousereg' = onMouseReg(mousereg, r[1], r[2], r[3], r[4], r[5], "", kwargs)
        /\ call' = [op |-> "onMouse", scr |-> r[1], y |-> r[2], x |-> r[3],
                    h |-> r[4], w |-> r[5]]
        /\ UNCHANGED <<activePane, options, gen>>

getMouse ==
    \E x \in Coords, y \in Coords, button \in Buttons :
        /\ call' = [op |-> "getMouse", x |-> x, y |-> y, button |-> button,
                    ret |-> getMouseRet(mousereg, x, y, button)]
        /\ UNCHANGED <<mousereg, activePane, options, gen>>

Init ==
    /\ mousereg = <<>>
    /\ activePane = 1
    /\ options = DefaultOptions
    /\ gen = Idle
    /\ call = [op |-> "init"]

Next == clearCaches \/ onMouse \/ getMouse

Spec == Init /\ [][Next]_vars

\* ------------------------------------------------------------ claims on the registry
\* region i of the registry matches the point and the button
Matches(i, x, y, button) ==
    /\ mousereg[i].x <= x /\ x < mousereg[i].x + mousereg[i].w
    /\ mousereg[i].y <= y /\ y < mousereg[i].y + mousereg[i].h
    /\ button \in DOMAIN mousereg[i].buttonfuncs

\* C1: getMouse returns the command of the most recently registered region that
\* contains the point and binds the button; a later region without the button
\* does not shadow an earlier match; without a match it returns None.
C1_LatestMatchWins ==
    call.op = "getMouse" =>
        LET hits == {i \in 1..Len(mousereg) : Matches(i, call.x, call.y, call.button)}
        IN /\ hits = {} => call.ret = NoneCmd
           /\ \A i \in hits :
                 (\A j \in hits : j <= i) => call.ret = mousereg[i].buttonfuncs[call.button]

\* two overlapping regions both match and bind different commands; a third case:
\* the later region contains the point but lacks the button
C1_Witness ==
    /\ call.op = "getMouse"
    /\ Len(mousereg) = 2
    /\ Matches(1, call.x, call.y, call.button)
    /\ Matches(2, call.x, call.y, call.button)
    /\ mousereg[1].buttonfuncs[call.button] # mousereg[2].buttonfuncs[call.button]
    /\ call.ret = mousereg[2].buttonfuncs[call.button]

\* C8: right after clearCaches the registry is empty, whatever it held, so no point
\* and button match; and from an empty registry getMouse returns None and leaves
\* it empty, so nothing matches until the next onMouse.
C8_ClearEmpties ==
    /\ [](call.op = "clearCaches" =>
            /\ mousereg = <<>>
            /\ \A x \in Coords, y \in Coords, button \in Buttons :
                  getMouseRet(mousereg, x, y, button) = NoneCmd)
    /\ [][(mousereg = <<>> /\ call'.op = "getMouse")
            => (call'.ret = NoneCmd /\ mousereg' = <<>>)]_vars

\* clearCaches has just dropped a full registry
C8_Witness == call.op = "clearCaches" /\ call.cleared = MaxRegs /\ mousereg = <<>>

\* C11: onMouse stores the region at (y + py, x + px) for every window that has a
\* parent, whose getparyx() is (py, px) with py >= 0 and px >= 0, also when py = 0
\* and px > 0; for a window without a parent it stores (y, x) unchanged.
C11_ParentOffsetApplied ==
    (call.op = "onMouse" /\ mousereg # <<>>) =>
        LET e == mousereg[Len(mousereg)]
        IN IF call.scr.py >= 0
           THEN e.y = call.y + call.scr.py /\ e.x = call.x + call.scr.px
           ELSE e.y = call.y /\ e.x = call.x

\* ------------------------------------------------------------ mouse.py: parseMouse
\* the curses constants (ncurses mouse version 2)
BUTTON_CTRL == 33554432
BUTTON_SHIFT == 67108864
BUTTON_ALT == 134217728

\* curses.mouseEvents, as initCurses fills it: value -> name, for the names starting
\* with BUTTON (those of button 1 here, and the modifiers)
mouseEvents ==
    (1 :> "BUTTON1_RELEASED") @@ (2 :> "BUTTON1_PRESSED") @@ (4 :> "BUTTON1_CLICKED")
    @@ (BUTTON_CTRL :> "BUTTON_CTRL") @@ (BUTTON_SHIFT :> "BUTTON_SHIFT")
    @@ (BUTTON_ALT :> "BUTTON_ALT")

\* bstate & mask, nonzero, for a one-bit mask
HasBit(bstate, mask) == (bstate \div mask) % 2 = 1
\* bstate &= ~mask, when the bit is there
ClearBit(bstate, mask) == IF HasBit(bstate, mask) THEN bstate - mask ELSE bstate

\* mouseEvents.get(bstate, str(bstate))
EventName(bstate) ==
    IF bstate \in DOMAIN mouseEvents THEN mouseEvents[bstate] ELSE ToString(bstate)

\* a decoder that tests SHIFT before ALT
KeystrokeShiftFirst(bstate) ==
    LET b1 == ClearBit(bstate, BUTTON_CTRL)
        b2 == ClearBit(b1, BUTTON_SHIFT)
        b3 == ClearBit(b2, BUTTON_ALT)
    IN (IF HasBit(bstate, BUTTON_CTRL) THEN <<"CTRL-">> ELSE <<>>)
       \o (IF HasBit(b1, BUTTON_SHIFT) THEN <<"SHIFT-">> ELSE <<>>)
       \o (IF HasBit(b2, BUTTON_ALT) THEN <<"ALT-">> ELSE <<>>)
       \o <<EventName(b3)>>

\* clicktype + the event name: the keystroke parseMouse builds from bstate
Keystroke(bstate) ==
    LET b1 == ClearBit(bstate, BUTTON_CTRL)
        b2 == ClearBit(b1, BUTTON_ALT)
        b3 == ClearBit(b2, BUTTON_SHIFT)
    IN (IF HasBit(bstate, BUTTON_CTRL) THEN <<"CTRL-">> ELSE <<>>)
       \o (IF HasBit(b1, BUTTON_ALT) THEN <<"ALT-">> ELSE <<>>)
       \o (IF HasBit(b2, BUTTON_SHIFT) THEN <<"SHIFT-">> ELSE <<>>)
       \o <<EventName(b3)>>

\* the windows handleMouse hands to parseMouse, in the order of the keyword
\* arguments: top=vd.winTop, bot=vd.winBottom, menu=vd.scrMenu
WinNames == <<"top", "bot", "menu">>
Windows ==
    [top |-> [py |-> 1, px |-> 0, mh |-> 1, mw |-> 4],
     bot |-> [py |-> 2, px |-> 0, mh |-> 2, mw |-> 4],
     menu |-> [py |-> 0, px |-> 0, mh |-> 1, mw |-> 4]]

RECURSIVE FoundIn(_, _, _)
FoundIn(names, y, x) ==
    IF names = <<>> THEN <<>>
    ELSE LET win == Windows[Head(names)]
         IN (IF win.py <= y /\ y < win.py + win.mh /\ win.px <= x /\ x < win.px + win.mw
             THEN <<Head(names)>> ELSE <<>>)
            \o FoundIn(Tail(names), y, x)

\* What curses.getmouse() gives: ok = FALSE when it raises curses.error
\* parseMouse(): the AttrDict it returns
parseMouseRet(ev) ==
    [keystroke |-> Keystroke(ev.bstate), y |-> ev.y, x |-> ev.x,
     found |-> FoundIn(WinNames, ev.y, ev.x)]

\* ------------------------------------------------------------ mouse.py: handleMouse
\* f.split(): the words of a command string
RECURSIVE SplitWords(_, _)
SplitWords(chars, cur) ==
    IF chars = <<>> THEN (IF cur = <<>> THEN <<>> ELSE <<cur>>)
    ELSE IF Head(chars) = " "
         THEN (IF cur = <<>> THEN <<>> ELSE <<cur>>) \o SplitWords(Tail(chars), <<>>)
    ELSE SplitWords(Tail(chars), Append(cur, Head(chars)))

Truthy(f) == f.kind = "callable" \/ (f.kind = "str" /\ f.s # <<>>)

In(x, seq) == \E i \in 1..Len(seq) : seq[i] = x

\* handleMouse(sheet) on the raw event ev, with vd.windowConfig[pct] = pct; cmdRaises
\* is what the first command or the callback raises ("no": nothing).
\* The outcome: raised (the exception that leaves handleMouse, "no" for a normal
\* return), ret, the commands and callbacks invoked, vd.keystrokes, the pane, the
\* sheet mouse position (set: whether it was assigned).
handleMouseRet(reg, pane, pct, ev, cmdRaises) ==
    LET topPaneActive == (pane = 2 /\ pct < 0) \/ (pane = 1 /\ pct > 0)
        bottomPaneActive == (pane = 1 /\ pct < 0) \/ (pane = 2 /\ pct > 0)
        base == [raised |-> "no", ret |-> <<>>, invoked |-> <<>>, keystrokes |-> <<>>,
                 pane |-> pane, mouseSet |-> FALSE, mouseX |-> 0, mouseY |-> 0]
    IN IF ~ev.ok
       \* curses.error out of parseMouse is passed over; r was never bound, and
       \* return r.keystroke raises
       THEN [base EXCEPT !.raised = "UnboundLocalError"]
       ELSE
         LET r == parseMouseRet(ev)
             flip == (bottomPaneActive /\ In("top", r.found))
                        \/ (topPaneActive /\ In("bot", r.found))
             pane2 == IF flip THEN (IF pane = 2 THEN 1 ELSE 2) ELSE pane
             f == getMouseRet(reg, r.x, r.y, r.keystroke)
             seen == [base EXCEPT !.pane = pane2, !.mouseSet = TRUE,
                                  !.mouseX = r.x, !.mouseY = r.y - 1]
             todo == IF f.kind = "str" THEN SplitWords(f.s, <<>>) ELSE <<<<"callback">>>>
         IN IF ~Truthy(f) THEN [seen EXCEPT !.ret = r.keystroke]
            ELSE IF todo = <<>>
                 THEN [seen EXCEPT !.keystrokes = r.keystroke]
            ELSE IF cmdRaises = "no"
                 THEN [seen EXCEPT !.invoked = todo, !.keystrokes = r.keystroke]
            ELSE IF cmdRaises = "curses.error"
                 THEN [seen EXCEPT !.invoked = <<Head(todo)>>, !.ret = r.keystroke]
            ELSE [seen EXCEPT !.invoked = <<Head(todo)>>, !.raised = cmdRaises]

\* ------------------------------------------------------------ inputs of the dispatch
Modifiers == {BUTTON_CTRL, BUTTON_ALT, BUTTON_SHIFT}
\* residual button codes: released, pressed, and pressed + released (not in the table)
Residuals == {1, 2, 3}

RECURSIVE SumSet(_)
SumSet(S) == IF S = {} THEN 0 ELSE LET e == CHOOSE e \in S : TRUE IN e + SumSet(S \ {e})

RawEvents ==
    {[ok |-> FALSE, x |-> 0, y |-> 0, mods |-> {}, code |-> 0, bstate |-> 0]}
    \cup {[ok |-> TRUE, x |-> x, y |-> y, mods |-> m, code |-> c, bstate |-> c + SumSet(m)] :
             x \in Coords, y \in Coords, m \in SUBSET Modifiers, c \in Residuals}

CtrlB1P == <<"CTRL-", "BUTTON1_PRESSED">>

\* the regions the dispatch is run against: (scr, y, x, h, w, buttonfuncs)
DispatchRegions ==
    {<<RootScr, 0, 0, 3, 3, (B1R :> CmdB)>>,
     <<RootScr, 1, 1, 1, 1, (B1R :> CmdA @@ CtrlB1P :> Callback)>>,
     <<RootScr, 0, 0, 2, 2, (B1P :> StrCmd(<<>>))>>}

\* the registries onMouse builds from them
RECURSIVE Registries(_)
Registries(n) ==
    IF n = 0 THEN {<<>>}
    ELSE Registries(n - 1)
         \cup {onMouseReg(reg, r[1], r[2], r[3], r[4], r[5], "", r[6]) :
                  reg \in {g \in Registries(n - 1) : Len(g) = n - 1}, r \in DispatchRegions}

\* ------------------------------------------------------------ the dispatch, called
parseMouse ==
    /\ call.op = "parseMouse" /\ ~call.done
    /\ call' = IF call.ev.ok
               THEN [call EXCEPT !.done = TRUE, !.ret = parseMouseRet(call.ev)]
               ELSE [call EXCEPT !.done = TRUE, !.raised = "curses.error"]
    /\ UNCHANGED <<mousereg, activePane, options, gen>>

handleMouse ==
    /\ call.op = "handleMouse" /\ ~call.done
    /\ LET out == handleMouseRet(mousereg, activePane, call.pct, call.ev, call.cmdRaises)
       IN /\ call' = [call EXCEPT !.done = TRUE, !.out = out]
          /\ activePane' = out.pane
    /\ UNCHANGED <<mousereg, options, gen>>

InitDispatch ==
    /\ options = DefaultOptions
    /\ gen = Idle
    /\ \/ /\ mousereg = <<>>
          /\ activePane = 1
          /\ \E ev \in RawEvents :
                call = [op |-> "parseMouse", ev |-> ev, done |-> FALSE, raised |-> "no",
                        ret |-> [keystroke |-> <<>>, y |-> 0, x |-> 0, found |-> <<>>]]
       \/ /\ mousereg \in Registries(MaxRegs)
          /\ activePane \in {1, 2}
          /\ \E ev \in RawEvents, pct \in {-50, 50},
                cmdRaises \in {"no", "curses.error", "Exception"} :
                call = [op |-> "handleMouse", ev |-> ev, pct |-> pct,
                        cmdRaises |-> cmdRaises, done |-> FALSE,
                        out |-> [raised |-> "no", ret |-> <<>>, invoked |-> <<>>,
                                 keystrokes |-> <<>>, pane |-> activePane,
                                 mouseSet |-> FALSE, mouseX |-> 0, mouseY |-> 0]]

NextDispatch == parseMouse \/ handleMouse

SpecDispatch == InitDispatch /\ [][NextDispatch]_vars

\* ------------------------------------------------------------ claims on the dispatch
\* C6: when curses.getmouse raises curses.error inside parseMouse, handleMouse
\* returns normally and invokes no command or callback.
C6_DecoderFailureSwallowed ==
    (call.op = "handleMouse" /\ call.done /\ ~call.ev.ok)
    => (call.out.raised = "no" /\ call.out.invoked = <<>>)

\* C9: for every subset of the modifier bits on a known button code, the keystroke
\* is the prefixes CTRL-, ALT-, SHIFT- in that order for the bits present, then the
\* button name; an unknown residual gives its number as text.
C9_ModifierOrder ==
    (call.op = "parseMouse" /\ call.done /\ call.ev.ok)
    => call.ret.keystroke =
          (IF BUTTON_CTRL \in call.ev.mods THEN <<"CTRL-">> ELSE <<>>)
          \o (IF BUTTON_ALT \in call.ev.mods THEN <<"ALT-">> ELSE <<>>)
          \o (IF BUTTON_SHIFT \in call.ev.mods THEN <<"SHIFT-">> ELSE <<>>)
          \o <<IF call.ev.code \in DOMAIN mouseEvents THEN mouseEvents[call.ev.code]
               ELSE ToString(call.ev.code)>>

\* CTRL and SHIFT on a released button 1
C9_Witness ==
    /\ call.op = "parseMouse" /\ call.done
    /\ call.ev.mods = {BUTTON_CTRL, BUTTON_SHIFT}
    /\ call.ret.keystroke = <<"CTRL-", "SHIFT-", "BUTTON1_RELEASED">>

\* ------------------------------------------------------------ cliptext.py: clipdraw
\* scr = None
NoScr == [name |-> "None", py |-> -1, px |-> -1, mh |-> 0, mw |-> 0]
Onclick == <<"o", "n", "c", "l", "i", "c", "k">>
Clickable == <<"c", "l", "i", "c", "k", "a", "b", "l", "e">>

\* The loop of clipdraw over iterchunks(s).  a: the arguments (w = None is
\* wGiven = FALSE; failAt = k makes the k-th chunk's scr.addstr raise, 0: none does).
\* st: the locals x, totaldispw, cattr (the color names applied since origattr),
\* link, with the registry, the addstr writes so far, and how the loop ended
\* ("run": still going, "return", "break", "error": an exception was caught).
RECURSIVE clipdrawLoop(_, _, _, _)

\* the chunk is clipped to (clipped, dispw) = clip: draw it, register the link,
\* advance; an addstr left of the window raises as well
clipdrawDraw(rest, st, a, opts, chunkw, clip) ==
    IF a.failAt = st.n + 1 \/ (a.rtl /\ st.x - clip.w - 1 < 0)
    THEN [st EXCEPT !.n = st.n + 1, !.end = "error"]
    ELSE clipdrawLoop(rest,
            [st EXCEPT
               !.n = st.n + 1,
               !.drawn = Append(st.drawn,
                            [y |-> a.y, x |-> IF a.rtl THEN st.x - clip.w - 1 ELSE st.x,
                             text |-> clip.ret, dispw |-> clip.w, cattr |-> st.cattr,
                             link |-> st.link,
                             cleared |-> IF a.clear /\ ~a.rtl THEN chunkw ELSE 0]),
               !.reg = IF st.link # <<>>
                       THEN onMouseReg(st.reg, a.scr, st.x, a.y, clip.w, 1, "",
                                       (B1R :> StrCmd(st.link)))
                       ELSE st.reg,
               !.x = st.x + clip.w,
               !.totaldispw = st.totaldispw + clip.w,
               !.end = IF chunkw < clip.w THEN "break" ELSE "run"],
            a, opts)

\* chunkw is the chunk's allotted width, clamped to the window
clipdrawWidth(rest, chunk, st, a, opts, chunkw) ==
    IF chunkw <= 0 \/ a.scr.name = "None" THEN [st EXCEPT !.end = "return"]
    ELSE clipdrawDraw(rest, st, a, opts, chunkw,
                      clipstr(chunk, chunkw, a.truncator, NoneStr, opts))

\* a pair whose colorname is not the reset, after link and cattr are updated
clipdrawChunk(rest, chunk, st, a, opts, windowWidth) ==
    IF chunk = <<>> THEN clipdrawLoop(rest, st, a, opts)
    ELSE clipdrawWidth(rest, chunk, st, a, opts,
            Min(IF ~a.wGiven
                THEN dispwidth(chunk, windowWidth - st.totaldispw, FALSE,
                               opts.disp_ambig_width)
                ELSE a.w,
                IF a.rtl THEN st.x - 1 ELSE windowWidth - st.x - 1))

\* one pair, with link and colorname as the onclick test leaves them
clipdrawPair(rest, chunk, st, a, opts, link, colorname) ==
    IF colorname = <<":">>
    THEN clipdrawLoop(rest, [st EXCEPT !.link = <<>>, !.cattr = <<>>], a, opts)
    ELSE clipdrawChunk(rest, chunk,
            [st EXCEPT !.link = link,
                       !.cattr = IF colorname # <<>> THEN Append(st.cattr, colorname)
                                 ELSE st.cattr],
            a, opts, IF a.scr.name = "None" THEN 80 ELSE a.scr.mw)

clipdrawLoop(pairs, st, a, opts) ==
    IF pairs = <<>> \/ st.end # "run" THEN st
    ELSE IF StartsWith(Head(pairs).colorname, Onclick)
         THEN clipdrawPair(Tail(pairs), Head(pairs).chunk, st, a, opts,
                           Head(pairs).colorname, Clickable)
    ELSE clipdrawPair(Tail(pairs), Head(pairs).chunk, st, a, opts,
                      st.link, Head(pairs).colorname)

\* clipdraw(scr, y, x, s, attr, w, clear, rtl, literal, **kwargs) on the registry reg
clipdrawOut(st, opts) ==
    [ret |-> st.totaldispw, reg |-> st.reg, drawn |-> st.drawn, end |-> st.end,
     raised |-> IF st.end = "error" /\ opts.debug THEN "curses.error" ELSE "no"]

clipdrawRet(reg, a, opts) ==
    clipdrawOut(clipdrawLoop(iterchunks(a.s, a.literal),
                             [x |-> a.x, totaldispw |-> 0, cattr |-> <<>>, link |-> <<>>,
                              reg |-> reg, drawn |-> <<>>, n |-> 0, end |-> "run"],
                             a, opts),
                opts)

\* ------------------------------------------------------------ inputs of clipdraw
MaxPieces == 3     \* markers and literal runs in a styled string handed to clipdraw
MaxW == 3          \* largest explicit width w handed to clipdraw

DrawPieces ==
    {<<"a", "b">>, <<"[", ":", "]">>, <<"[", ":", "r", "]">>,
     <<"[", ":">> \o Onclick \o <<"]">>}
DrawTexts == {Concat(ps) : ps \in SeqsUpTo(DrawPieces, MaxPieces)}

\* the keyword arguments, whether an addstr raises, and options.debug
DrawModes ==
    LET plain == [rtl |-> FALSE, literal |-> FALSE, clear |-> TRUE, failAt |-> 0,
                  debug |-> FALSE]
    IN {plain, [plain EXCEPT !.rtl = TRUE, !.clear = FALSE], [plain EXCEPT !.literal = TRUE],
        [plain EXCEPT !.failAt = 1], [plain EXCEPT !.failAt = 2, !.debug = TRUE]}

\* ------------------------------------------------------------ clipdraw, called
clipdraw ==
    /\ call.op = "clipdraw" /\ ~call.done
    /\ call' = [call EXCEPT !.done = TRUE, !.out = clipdrawRet(mousereg, call.a, options)]
    /\ mousereg' = call'.out.reg
    /\ UNCHANGED <<activePane, options, gen>>

InitDraw ==
    /\ activePane = 1
    /\ gen = Idle
    /\ mousereg \in {<<>>, onMouseReg(<<>>, RootScr, 0, 0, 1, 1, "", (B1P :> CmdA))}
    /\ \E scr \in {RootScr, SubScr, NoScr}, y \in {0, 1}, x \in {0, 2}, s \in DrawTexts,
          w \in 0..MaxW, m \in DrawModes :
          /\ options = [DefaultOptions EXCEPT !.debug = m.debug]
          /\ call = [op |-> "clipdraw", done |-> FALSE,
                     a |-> [scr |-> scr, y |-> y, x |-> x, s |-> s, wGiven |-> w > 0,
                            w |-> w, clear |-> m.clear, rtl |-> m.rtl,
                            literal |-> m.literal, truncator |-> NoneStr,
                            failAt |-> m.failAt],
                     out |-> [ret |-> 0, reg |-> <<>>, drawn |-> <<>>, end |-> "run",
                              raised |-> "no"]]

NextDraw == clipdraw

SpecDraw == InitDraw /\ [][NextDraw]_vars

\* ------------------------------------------------------------ claims on clipdraw
\* C2: a chunk drawn under an onclick token at row y from column x with width d, on
\* a window without a parent, is registered so that getMouse for BUTTON1_RELEASED
\* returns the token at every (row y, column c) with x <= c < x + d and, when it is
\* the only region, nothing outside that span.
C2_ClickRegionCoversSpan ==
    (call.op = "clipdraw" /\ call.done /\ call.a.scr.py < 0) =>
        \A i \in 1..Len(call.out.drawn) :
            LET d == call.out.drawn[i]
            IN (d.link # <<>> /\ d.dispw > 0) =>
                  /\ \A c \in d.x..(d.x + d.dispw - 1) :
                        getMouseRet(mousereg, c, d.y, B1R) = StrCmd(d.link)
                  /\ Len(mousereg) = 1 =>
                        \A c \in 0..call.a.scr.mw, r \in 0..call.a.scr.mw :
                            (r # d.y \/ c < d.x \/ c >= d.x + d.dispw)
                            => getMouseRet(mousereg, c, r, B1R) = NoneCmd

\* C10: with an explicit width w > 0, the total width clipdraw returns is at most w.
C10_TotalWithinWidth ==
    (/\ call.op = "clipdraw" /\ call.done
     /\ call.a.wGiven /\ call.a.w > 0
     /\ call.out.raised = "no")
    => call.out.ret <= call.a.w

\* ------------------------------------------------------------ _markdown_to_internal
\* \w of a Python regular expression
IsWord(c) == category(c) \in {"Ll", "Lo", "Lm", "Pc"}

\* delim at position i of s
DelimAt(s, i, delim) ==
    i >= 1 /\ i + Len(delim) - 1 <= Len(s) /\ SubSeq(s, i, i + Len(delim) - 1) = delim

\* the \b of the underline pattern: before the opening _ at i, after the closing _ at j
OpenOk(s, i, wb) == ~wb \/ i = 1 \/ ~IsWord(s[i - 1])
CloseOk(s, j, wb) == ~wb \/ j = Len(s) \/ ~IsWord(s[j + 1])

\* (.*?) then the closing delimiter: its first position from j on, 0 when there is none
RECURSIVE FindClose(_, _, _, _)
FindClose(s, j, delim, wb) ==
    IF j + Len(delim) - 1 > Len(s) THEN 0
    ELSE IF DelimAt(s, j, delim) /\ CloseOk(s, j + Len(delim) - 1, wb) THEN j
    ELSE FindClose(s, j + 1, delim, wb)

\* re.sub(delim (.*?) delim, [:name]\1[:], s), scanning from position i
RECURSIVE ReSub(_, _, _, _, _)
ReSubAt(s, i, delim, name, wb, j) ==
    IF j > 0
    THEN <<"[", ":">> \o name \o <<"]">> \o SubSeq(s, i + Len(delim), j - 1)
         \o <<"[", ":", "]">> \o ReSub(s, j + Len(delim), delim, name, wb)
    ELSE <<s[i]>> \o ReSub(s, i + 1, delim, name, wb)

ReSub(s, i, delim, name, wb) ==
    IF i > Len(s) THEN <<>>
    ELSE IF DelimAt(s, i, delim) /\ OpenOk(s, i, wb)
         THEN ReSubAt(s, i, delim, name, wb, FindClose(s, i + Len(delim), delim, wb))
    ELSE <<s[i]>> \o ReSub(s, i + 1, delim, name, wb)

_markdown_to_internal(text) ==
    ReSub(ReSub(ReSub(ReSub(text, 1, <<"U+0060">>, <<"c", "o", "d", "e">>, FALSE),
                      1, <<"*", "*">>, <<"b", "o", "l", "d">>, FALSE),
                1, <<"*">>, <<"i", "t", "a", "l", "i", "c">>, FALSE),
          1, <<"_">>, <<"u", "n", "d", "e", "r", "l", "i", "n", "e">>, TRUE)

\* ------------------------------------------------------------ textwrap.wrap
\* TextWrapper._split: the runs of whitespace and of other characters
RECURSIVE WordRuns(_, _)
WordRuns(text, cur) ==
    IF text = <<>> THEN (IF cur = <<>> THEN <<>> ELSE <<cur>>)
    ELSE IF cur # <<>> /\ ((Head(text) = " ") # (cur[1] = " "))
         THEN <<cur>> \o WordRuns(Tail(text), <<Head(text)>>)
    ELSE WordRuns(Tail(text), Append(cur, Head(text)))

\* TextWrapper._wrap_chunks with drop_whitespace=False, break_long_words=True:
\* cur is the line being filled
RECURSIVE WrapChunks(_, _, _)
WrapChunks(chunks, cur, width) ==
    IF chunks = <<>> THEN (IF cur = <<>> THEN <<>> ELSE <<cur>>)
    ELSE IF Len(cur) + Len(Head(chunks)) <= width
         THEN WrapChunks(Tail(chunks), cur \o Head(chunks), width)
    ELSE IF Len(Head(chunks)) > width
         \* _handle_long_word: fill the line with the head of the long chunk
         THEN <<cur \o Upto(Head(chunks), width - Len(cur))>>
              \o WrapChunks(<<From(Head(chunks), width - Len(cur))>> \o Tail(chunks),
                            <<>>, width)
    ELSE <<cur>> \o WrapChunks(chunks, <<>>, width)

\* textwrap.wrap(text, width=width, drop_whitespace=False), width >= 1
TextWrap(text, width) == WrapChunks(WordRuns(text, <<>>), <<>>, width)

\* ------------------------------------------------------------ wraptext
RECURSIVE TextOnly(_)
TextOnly(chunks) ==
    IF chunks = <<>> THEN <<>>
    ELSE (IF IsMarkup(Head(chunks)) THEN <<>> ELSE Head(chunks)) \o TextOnly(Tail(chunks))

\* the while loop over chunks for one wrapped line txt: r and the chunks left
RECURSIVE Restyle(_, _, _)
Restyle(chunks, txt, r) ==
    IF chunks = <<>> THEN [r |-> r, chunks |-> chunks]
    ELSE IF Len(Head(chunks)) > Len(txt)
         THEN [r |-> r \o txt, chunks |-> <<From(Head(chunks), Len(txt))>> \o Tail(chunks)]
    ELSE IF Len(chunks) = 1
         THEN Restyle(<<>>, From(txt, Len(Head(chunks))), r \o Head(chunks))
    ELSE Restyle(Tail(Tail(chunks)), From(txt, Len(Head(chunks))),
                 r \o Upto(txt, Len(Head(chunks))) \o chunks[2])

Yield(g, styled, plain) == [g EXCEPT !.out = Append(g.out, [styled |-> styled, plain |-> plain])]

\* The generator g runs to its next yield, or to its end.  lines: the lines of text
\* not yet started; inline: inside the body for one line, with its chunks, the
\* wrapped lines left and linenum.
RECURSIVE GenStep(_)
GenWrapped(g, re) ==
    Yield([g EXCEPT !.chunks = re.chunks, !.textlines = Tail(g.textlines),
                    !.linenum = g.linenum + 1],
          IF g.linenum > 0 THEN g.indent \o re.r ELSE re.r, Head(g.textlines))

GenLine(g, chunks) ==
    GenStep([g EXCEPT !.lines = Tail(g.lines), !.inline = TRUE, !.chunks = chunks,
                      !.textlines = TextWrap(TextOnly(chunks), g.width), !.linenum = 0])

GenStep(g) ==
    IF g.inline
    THEN IF g.textlines # <<>>
         THEN GenWrapped(g, Restyle(g.chunks, Head(g.textlines), <<>>))
         ELSE IF g.chunks # <<>>
              THEN Yield([g EXCEPT !.chunks = Tail(g.chunks)], Head(g.chunks), <<>>)
         ELSE GenStep([g EXCEPT !.inline = FALSE])
    ELSE IF g.lines = <<>> THEN [g EXCEPT !.pc = "done"]
    ELSE IF Head(g.lines) = <<>> THEN Yield([g EXCEPT !.lines = Tail(g.lines)], <<>>, <<>>)
    ELSE GenLine(g, ReSplit(_markdown_to_internal(Head(g.lines)), 1, <<>>))

\* ------------------------------------------------------------ inputs of wraptext
MaxWrapPieces == 4   \* words, blanks and markdown delimiters in a line

ExampleLine ==
    <<"a", " ", "b", "o", "l", "d", " ", "*", "*", "w", "o", "r", "d", "*", "*", " ",
      "h", "e", "r", "e">>
WrapPieces == {<<"a", "b">>, <<" ">>, <<"*", "*">>, <<"*">>, <<"_">>, <<"U+0060">>}
WrapLines == {Concat(ps) : ps \in SeqsUpTo(WrapPieces, MaxWrapPieces)} \cup {ExampleLine}
WrapTexts == {<<l>> : l \in WrapLines} \cup {<<<<>>, ExampleLine>>}

\* ------------------------------------------------------------ wraptext, called
\* wraptext(text, width, indent): the generator is made; nothing runs yet
wraptext ==
    /\ gen.pc = "idle"
    /\ gen' = [gen EXCEPT !.pc = "running"]
    /\ call' = [op |-> "wraptext"]
    /\ UNCHANGED <<mousereg, activePane, options>>

\* next() on the generator
wraptextNext ==
    /\ gen.pc = "running"
    /\ gen' = GenStep(gen)
    /\ call' = [op |-> "next"]
    /\ UNCHANGED <<mousereg, activePane, options>>

InitWrap ==
    /\ mousereg = <<>>
    /\ activePane = 1
    /\ options = DefaultOptions
    /\ call = [op |-> "init"]
    /\ \E text \in WrapTexts, width \in {2, 3, 8}, indent \in {<<>>, <<" ">>} :
          gen = [pc |-> "idle", text |-> text, width |-> width, indent |-> indent,
                 lines |-> text, inline |-> FALSE, chunks |-> <<>>, textlines |-> <<>>,
                 linenum |-> 0, out |-> <<>>]

NextWrap == wraptext \/ wraptextNext

SpecWrap == InitWrap /\ [][NextWrap]_vars

\* ------------------------------------------------------------ claims on wraptext
\* s holds p as a contiguous run
Contains(s, p) == \E i \in 0..(Len(s) - Len(p)) : SubSeq(s, i + 1, i + Len(p)) = p

RECURSIVE PlainLen(_, _)
\* the plain characters of the first n yields
PlainLen(out, n) == IF n = 0 THEN 0 ELSE PlainLen(out, n - 1) + Len(out[n].plain)

\* C7: when the literal run between a style marker and the reset after it lies
\* within one output line, the styled line of that output holds the marker, the run
\* and the reset together, also when the line starts exactly at the run.
C7_SpanKeptOnItsLine ==
    (gen.pc = "done" /\ Len(gen.text) = 1 /\ gen.text[1] # <<>>) =>
        LET chunks == ReSplit(_markdown_to_internal(gen.text[1]), 1, <<>>)
        IN \A k \in 1..Len(chunks) :
              (/\ k + 2 <= Len(chunks)
               /\ IsMarkup(chunks[k]) /\ MarkupName(chunks[k]) # <<":">>
               /\ chunks[k + 1] # <<>>
               /\ chunks[k + 2] = <<"[", ":", "]">>)
              => \A i \in 1..Len(gen.out) :
                    LET from == Len(TextOnly(SubSeq(chunks, 1, k)))
                    IN (/\ PlainLen(gen.out, i - 1) <= from
                        /\ from + Len(chunks[k + 1]) <= PlainLen(gen.out, i))
                       => Contains(gen.out[i].styled,
                                   chunks[k] \o chunks[k + 1] \o chunks[k + 2])

\* ------------------------------------------------------------ claims on the text functions
\* a character _dispch replaces by a substitute
SubjectToSubst(c) == _dispch(c, <<"O">>, <<"C">>, <<"M">>, 1).newc # <<c>>

\* C3: for a width bound B > 0 that is at least the truncator's display width,
\* the width _clipstr returns is at most B.
C3_ClipWidthWithinBound ==
    (/\ call.op = "_clipstr" /\ call.done
     /\ call.dispw > 0
     /\ call.dispw >= dispwidth(call.trunch, 0, FALSE, options.disp_ambig_width))
    => call.ret.w <= call.dispw

\* C4: a text without substituted characters, clipped to a bound that is at least
\* its display width, comes back unmodified, whatever the truncator.
C4_ClipRoundTrip ==
    (/\ call.op = "_clipstr" /\ call.done
     /\ \A i \in 1..Len(call.s) : ~SubjectToSubst(call.s[i])
     /\ call.dispw >= dispwidth(call.s, 0, FALSE, options.disp_ambig_width))
    => call.ret.ret = call.s

\* C5: wcwidth is 0 for every code point of ZERO_WIDTH_CF, for either ambiguous
\* width policy.
C5_ZeroWidthIsZero ==
    (call.op = "wcwidth" /\ call.done /\ call.cc \in ZERO_WIDTH_CF) => call.ret = 0

====
